---- MODULE Spec2Model ----
(***************************************************************************)
(* Model of the Slack Markdown Exporter content script                     *)
(* (src/content.js and its earlier variant src/unnamed/part_000).          *)
(*                                                                         *)
(* Strings.  A JavaScript string is modelled as a sequence of tokens; the  *)
(* string is the concatenation of its tokens.  A token is one complete     *)
(* markup tag ("<br>", "<blockquote>", ...), one whitespace or punctuation *)
(* character, or a word holding neither whitespace nor '<' nor '>'.  The    *)
(* regular expressions of the source match whole tags, single characters   *)
(* and line boundaries, so they never split a token.  A bare '<' does not  *)
(* occur in the inputs (innerHTML serialises it as an entity); a bare '>'  *)
(* occurs only where the rewriter itself writes the quote prefix.          *)
(*                                                                         *)
(* Specifications.  Spec is a run of handleExportClick on a loaded page and *)
(* the observer callback that follows it; SpecQuote, SpecList, SpecInline  *)
(* and SpecWs apply formatToMarkdown to drawn inputs; SpecInject is the     *)
(* script from its load on: observeDOM, the host changing the header, and  *)
(* one click of the export button.                                         *)
(*                                                                         *)
(* Dates.  formatDateTime reads the local calendar fields; the model fixes *)
(* the zone of the running environment to UTC.                             *)
(***************************************************************************)
EXTENDS Integers, Sequences, FiniteSets, TLC

VARIABLES
    variant,               \* which file's handler runs: "content" | "part000"
    countField,            \* #message-count-input: [present, value]
    container,             \* the virtual-list scroll container exists
    messages,              \* the [data-qa="message_container"] elements, in document order
    title,                 \* document.title
    pc,                    \* position of handleExportClick
    count,                 \* local: count
    lastNMessages,         \* local: indices (into messages) of messagesArray.slice(-count)
    pos,                   \* local: position of the for..of loop in lastNMessages
    markdownContent,       \* local: markdownContent
    exportedCount,         \* local: exportedCount
    prevFormatedTimestamp, \* local: prevFormatedTimestamp
    alerts,                \* the alert() calls made, in order
    downloads,             \* the files handed to the browser: [name, content]
    processed,             \* history: indices the loop body has been entered with
    tsLines,               \* history: the timestamp lines appended to markdownContent
    fmtInput,              \* formatToMarkdown: the argument
    fmtOut,                \* formatToMarkdown: the value returned
    fmtPc,                 \* "ready" | "content" | "part000"
    readyState,            \* document.readyState when the script runs
    injPc,                 \* position of the script: "start" | "observing"
    headerButton,          \* the huddle header button: "none" | "inActions" | "elsewhere"
    actionsContainer,      \* a .p-view_header__actions element exists
    controls,              \* the elements with id 'slack-exporter-controls', in document order
    pendingRecords,        \* origins of the mutation records queued for the observer
    rerenders              \* times the host has removed the controls

vars == <<variant, countField, container, messages, title, pc, count, lastNMessages,
          pos, markdownContent, exportedCount, prevFormatedTimestamp, alerts,
          downloads, processed, tsLines, fmtInput, fmtOut, fmtPc,
          readyState, injPc, headerButton, actionsContainer, controls,
          pendingRecords, rerenders>>

exportVars == <<variant, countField, container, messages, title, pc, count,
                lastNMessages, pos, markdownContent, exportedCount,
                prevFormatedTimestamp, alerts, downloads, processed, tsLines>>

fmtVars == <<fmtInput, fmtOut, fmtPc>>

injVars == <<readyState, injPc, headerButton, actionsContainer, controls,
             pendingRecords, rerenders>>

\* injVars but the queued records
domVars == <<readyState, injPc, headerButton, actionsContainer, controls, rerenders>>

\* exportVars but the count field
handlerVars == <<variant, container, messages, title, pc, count, lastNMessages, pos,
                 markdownContent, exportedCount, prevFormatedTimestamp, alerts,
                 downloads, processed, tsLines>>

(***************************************************************************)
(* Bounds of the model.                                                    *)
(***************************************************************************)
MaxMsgs == 3       \* message elements in the container
MaxSegs == 4       \* segments a rewriter input is built from
MaxWsLen == 5      \* tokens of a whitespace-normalisation input
MaxRerenders == 2  \* host re-renders that remove the controls
MaxClickMsgs == 1  \* message elements on the page the button is clicked on

(***************************************************************************)
(* Tokens.                                                                 *)
(***************************************************************************)
NL == "\n"
SP == " "
TAB == "\t"
GT == ">"

BrTags == {"<br>", "<br/>", "<BR>"}
BlockquoteOpen == {"<blockquote>", "<blockquote type=\"cite\">"}
BlockquoteClose == {"</blockquote>"}
OlBorder0 == "<ol data-border=\"0\">"
OlBorder1 == "<ol data-border=\"1\">"
OlPlain == "<ol>"
OlClose == {"</ol>"}
LiOpen == {"<li>"}
LiClose == {"</li>"}
InlineTags == {"<strong>", "</strong>", "<b>", "</b>", "<i>", "</i>", "<em>", "</em>",
               "<code>", "</code>", "<a href=\"http://x\">", "</a>", "<div>", "</div>"}
Tags == BrTags \cup BlockquoteOpen \cup BlockquoteClose \cup {OlBorder0, OlBorder1, OlPlain}
        \cup OlClose \cup LiOpen \cup LiClose \cup InlineTags

Max(a, b) == IF a >= b THEN a ELSE b
Min(a, b) == IF a <= b THEN a ELSE b

(***************************************************************************)
(* JavaScript string primitives on token sequences.                        *)
(***************************************************************************)
\* \s of a regular expression, and the characters String.prototype.trim removes
IsWs(c) == c \in {SP, NL, TAB}

RECURSIVE TrimLeft(_)
TrimLeft(s) == IF s # <<>> /\ IsWs(Head(s)) THEN TrimLeft(Tail(s)) ELSE s

RECURSIVE TrimRight(_)
TrimRight(s) ==
    IF s # <<>> /\ IsWs(s[Len(s)]) THEN TrimRight(SubSeq(s, 1, Len(s) - 1)) ELSE s

\* String.prototype.trim
Trim(s) == TrimRight(TrimLeft(s))

\* the least index i in from..Len(s) with s[i] \in set, or 0
RECURSIVE FirstIdx(_, _, _)
FirstIdx(s, from, set) ==
    IF from > Len(s) THEN 0
    ELSE IF s[from] \in set THEN from
    ELSE FirstIdx(s, from + 1, set)

\* String.prototype.split('\n')
RECURSIVE SplitNL(_)
SplitNL(s) ==
    LET i == FirstIdx(s, 1, {NL})
    IN  IF i = 0 THEN <<s>>
        ELSE <<SubSeq(s, 1, i - 1)>> \o SplitNL(SubSeq(s, i + 1, Len(s)))

\* Array.prototype.join('\n')
RECURSIVE JoinNL(_)
JoinNL(ls) ==
    IF ls = <<>> THEN <<>>
    ELSE IF Len(ls) = 1 THEN ls[1]
    ELSE ls[1] \o <<NL>> \o JoinNL(Tail(ls))

\* the concatenation of a sequence of strings
RECURSIVE Concat(_)
Concat(ss) == IF ss = <<>> THEN <<>> ELSE Head(ss) \o Concat(Tail(ss))

DigitChars == <<"0", "1", "2", "3", "4", "5", "6", "7", "8", "9">>

\* Number.prototype.toString of a natural number
RECURSIVE NumToStr(_)
NumToStr(n) ==
    IF n < 10 THEN <<DigitChars[n + 1]>>
    ELSE NumToStr(n \div 10) \o <<DigitChars[(n % 10) + 1]>>

(***************************************************************************)
(* The rewriter of src/content.js.                                         *)
(***************************************************************************)
\* messageText.replace(/<br\s*[^>]*\/?>/gi, '\n')
RECURSIVE replaceBr(_)
replaceBr(s) ==
    IF s = <<>> THEN <<>>
    ELSE <<IF Head(s) \in BrTags THEN NL ELSE Head(s)>> \o replaceBr(Tail(s))

\* lines.map(line => `> ${line.trim()}`)
RECURSIVE prefixedLines(_)
prefixedLines(lines) ==
    IF lines = <<>> THEN <<>>
    ELSE <<(<<GT, SP>> \o Trim(Head(lines)))>> \o prefixedLines(Tail(lines))

\* the replacement callback of replaceBlockquotes
quoteReplacement(content) == JoinNL(prefixedLines(SplitNL(content))) \o <<NL>>

\* htmlString.replace(/<blockquote[^>]*>([\s\S]*?)<\/blockquote>/gi, callback):
\* the leftmost opening tag, lazily up to the first closing tag after it; the
\* scan goes on after the match and never rescans a replacement
RECURSIVE replaceBlockquotes(_)
replaceBlockquotes(s) ==
    LET i == FirstIdx(s, 1, BlockquoteOpen)
        j == IF i = 0 THEN 0 ELSE FirstIdx(s, i + 1, BlockquoteClose)
    IN  IF i = 0 \/ j = 0 THEN s
        ELSE SubSeq(s, 1, i - 1)
             \o quoteReplacement(SubSeq(s, i + 1, j - 1))
             \o replaceBlockquotes(SubSeq(s, j + 1, Len(s)))

\* the replacement callback of the <li> pattern
liReplacement(prefix, counter, itemContent) ==
    prefix \o NumToStr(counter) \o <<".", SP>> \o Trim(itemContent) \o <<NL>>

\* listContent.replace(/<li[^>]*>(.*?)<\/li>/gi, callback) with the running
\* counter: '.' matches no newline, so an opening tag whose first following
\* closing tag lies beyond a newline is not matched and is passed over
RECURSIVE replaceLi(_, _, _)
replaceLi(s, prefix, counter) ==
    LET i == FirstIdx(s, 1, LiOpen)
        j == IF i = 0 THEN 0 ELSE FirstIdx(s, i + 1, LiClose \cup {NL})
    IN  IF i = 0 THEN s
        ELSE IF j = 0 \/ s[j] = NL
             THEN SubSeq(s, 1, i) \o replaceLi(SubSeq(s, i + 1, Len(s)), prefix, counter)
        ELSE SubSeq(s, 1, i - 1)
             \o liReplacement(prefix, counter + 1, SubSeq(s, i + 1, j - 1))
             \o replaceLi(SubSeq(s, j + 1, Len(s)), prefix, counter + 1)

\* the replacement callback of the <ol> pattern
olReplacement(borderTag, listContent) ==
    replaceLi(listContent, IF borderTag = OlBorder1 THEN <<GT, SP>> ELSE <<>>, 0)

\* htmlString.replace(/<ol[^>]*data-border="(\d)"[^>]*>([\s\S]*?)<\/ol>/gi, callback):
\* only an opening tag that carries data-border="<digit>" starts a match
RECURSIVE transformHtmlList(_)
transformHtmlList(s) ==
    LET i == FirstIdx(s, 1, {OlBorder0, OlBorder1})
        j == IF i = 0 THEN 0 ELSE FirstIdx(s, i + 1, OlClose)
    IN  IF i = 0 \/ j = 0 THEN s
        ELSE SubSeq(s, 1, i - 1)
             \o olReplacement(s[i], SubSeq(s, i + 1, j - 1))
             \o transformHtmlList(SubSeq(s, j + 1, Len(s)))

\* messageText.replace(/<[^>]*>/g, '')
RECURSIVE stripTags(_)
stripTags(s) ==
    IF s = <<>> THEN <<>>
    ELSE (IF Head(s) \in Tags THEN <<>> ELSE <<Head(s)>>) \o stripTags(Tail(s))

\* the end of the line that holds position i: the index of the next newline at
\* or after i, or Len(s) + 1
RECURSIVE LineEnd(_, _)
LineEnd(s, i) ==
    IF i > Len(s) \/ s[i] = NL THEN i ELSE LineEnd(s, i + 1)

\* the first index at or after i that holds no whitespace, or Len(s) + 1
RECURSIVE WsEnd(_, _)
WsEnd(s, i) ==
    IF i > Len(s) \/ ~IsWs(s[i]) THEN i ELSE WsEnd(s, i + 1)

\* one attempt of /(^>.*\S)\n(\s*[^>].*)/m at position i: the index just past the
\* match, or 0 when the pattern does not match there.  Group 1 is a whole line
\* that starts with '>' and ends with a non-whitespace character other than that
\* '>'.  In group 2 the greedy \s* takes the whole whitespace run (newlines
\* included); when what follows it is '>' or the end of the text it gives back
\* one character, which [^>] then takes; .* runs to the end of that line.
quoteMatchEnd(s, i) ==
    LET e == LineEnd(s, i)
        w == WsEnd(s, e + 1)
    IN  IF /\ (i = 1 \/ s[i - 1] = NL)
           /\ i <= Len(s) /\ s[i] = GT
           /\ e <= Len(s)
           /\ e - 1 > i /\ ~IsWs(s[e - 1])
        THEN IF w <= Len(s) /\ s[w] # GT THEN LineEnd(s, w + 1)
             ELSE IF w > e + 1 THEN LineEnd(s, w)
             ELSE 0
        ELSE 0

\* text.replace(/(^>.*\S)\n(\s*[^>].*)/gm, "$1\n\n$2"), scanning from position i
RECURSIVE separateFrom(_, _)
separateFrom(s, i) ==
    IF i > Len(s) THEN <<>>
    ELSE LET m == quoteMatchEnd(s, i)
             e == LineEnd(s, i)
         IN  IF m = 0 THEN <<s[i]>> \o separateFrom(s, i + 1)
             ELSE SubSeq(s, i, e - 1) \o <<NL, NL>> \o SubSeq(s, e + 1, m - 1)
                  \o separateFrom(s, m)

separateQuoteFromText(text) == separateFrom(text, 1)

\* formatToMarkdown of src/content.js
formatToMarkdown(messageText) ==
    separateQuoteFromText(stripTags(transformHtmlList(replaceBlockquotes(
        replaceBr(messageText)))))

(***************************************************************************)
(* The rewriter of src/unnamed/part_000.                                   *)
(***************************************************************************)
\* the greatest index in from..to that holds a newline, or 0
RECURSIVE LastNL(_, _, _)
LastNL(s, from, to) ==
    IF to < from THEN 0
    ELSE IF s[to] = NL THEN to
    ELSE LastNL(s, from, to - 1)

\* .replace(/\n\s*\n/g, '\n\n'): from a newline, the greedy \s* backs off to the
\* last newline of the whitespace run that follows
RECURSIVE collapseBlankLines(_, _)
collapseBlankLines(s, i) ==
    IF i > Len(s) THEN <<>>
    ELSE LET j == IF s[i] = NL THEN LastNL(s, i + 1, WsEnd(s, i + 1) - 1) ELSE 0
         IN  IF j = 0 THEN <<s[i]>> \o collapseBlankLines(s, i + 1)
             ELSE <<NL, NL>> \o collapseBlankLines(s, j + 1)

\* .replace(/\s\s+/g, ' '): every run of two or more whitespace characters,
\* newlines included, becomes one space
RECURSIVE collapseWhitespace(_, _)
collapseWhitespace(s, i) ==
    IF i > Len(s) THEN <<>>
    ELSE LET w == IF IsWs(s[i]) THEN WsEnd(s, i) ELSE i
         IN  IF w - i >= 2 THEN <<SP>> \o collapseWhitespace(s, w)
             ELSE <<s[i]>> \o collapseWhitespace(s, i + 1)

\* formatToMarkdown of src/unnamed/part_000
formatToMarkdownPart000(messageText) ==
    collapseWhitespace(collapseBlankLines(Trim(stripTags(replaceBr(messageText))), 1), 1)

(***************************************************************************)
(* Timestamps.  A data-ts attribute is a decimal count of seconds; the     *)
(* model holds it as whole seconds and microseconds.                       *)
(***************************************************************************)
\* (number) => number.toString().padStart(2, '0')
pad(number) == IF number < 10 THEN <<"0">> \o NumToStr(number) ELSE NumToStr(number)

\* the calendar date [y, m, d] of a day count since 1970-01-01, as
\* Date.prototype.getFullYear/getMonth/getDate give it
civilFromDays(days) ==
    LET z == days + 719468
        era == z \div 146097
        doe == z - era * 146097
        yoe == (doe - doe \div 1460 + doe \div 36524 - doe \div 146096) \div 365
        doy == doe - (365 * yoe + yoe \div 4 - yoe \div 100)
        mp == (5 * doy + 2) \div 153
        d == doy - (153 * mp + 2) \div 5 + 1
        m == IF mp < 10 THEN mp + 3 ELSE mp - 9
    IN  [y |-> yoe + era * 400 + (IF m <= 2 THEN 1 ELSE 0), m |-> m, d |-> d]

\* formatDateTime(date), the date given as whole seconds since the epoch:
\* `${year}.${month}.${day} ${hours}:${minutes}`
formatDateTime(seconds) ==
    LET minutes == seconds \div 60
        c == civilFromDays(minutes \div 1440)
    IN  NumToStr(c.y) \o <<".">> \o pad(c.m) \o <<".">> \o pad(c.d) \o <<SP>>
        \o pad((minutes % 1440) \div 60) \o <<":">> \o pad(minutes % 60)

RECURSIVE Pow2(_)
Pow2(n) == IF n = 0 THEN 1 ELSE 2 * Pow2(n - 1)

\* the greatest e with 2^e <= n, for n >= 1: the exponent of the double n
RECURSIVE Log2Floor(_)
Log2Floor(n) == IF n < 2 THEN 0 ELSE 1 + Log2Floor(n \div 2)

\* the least j >= i with us * 2^j >= 10^6, for 0 < us < 10^6
RECURSIVE ShiftsToUnit(_, _)
ShiftsToUnit(us, i) == IF us * Pow2(i) >= 1000000 THEN i ELSE ShiftsToUnit(us, i + 1)

\* r * 2^k modulo m
RECURSIVE DoubleMod(_, _, _)
DoubleMod(r, k, m) == IF k = 0 THEN r % m ELSE DoubleMod((2 * r) % m, k - 1, m)

\* Math.round(parseFloat(ts) * 1000) is one more than the whole milliseconds
\* of ts.  x = sec + us / 10^6 is what the attribute says and 1000 x = M + f,
\* M whole.  parseFloat gives the double d nearest to x and the product is
\* rounded to a double p again; both errors together stay under 0.0004 ms, so
\* unless f is one half, p is on the side of M + 0.5 that 1000 x is on.
\* When f is one half, M + 0.5 is itself a double: p falls below it, and
\* Math.round gives M, exactly when d lies below x by more than half the
\* spacing of the doubles at p, divided by 1000.  With 2^e <= x < 2^(e+1),
\* the doubles at x are 2^(e-52) apart, d is below x by c / 10^6 of that
\* spacing, c being us * 2^(52-e) modulo 10^6 when d is x rounded down, and
\* the doubles at p are 2^9 or 2^10 times as far apart as those at x.
roundsUp(ts) ==
    IF ts.us % 1000 # 500 THEN ts.us % 1000 > 500
    ELSE
        LET e == Log2Floor(ts.sec)
            j == ShiftsToUnit(ts.us, 1)
            \* 1000 x >= 2^(e+10): the doubles at p are 2^10 times as far apart
            wide ==
                IF ts.sec >= 1
                THEN LET P == Pow2(e)
                         A == (P \div 125) * 3 + ((P % 125) * 3) \div 125
                         B == ((P % 125) * 3) % 125
                     IN  \/ ts.sec - P > A
                         \/ ts.sec - P = A /\ ts.us >= 8000 * B
                ELSE ts.us * Pow2(j) >= 1024000
            k == IF ts.sec >= 1 THEN 52 - e ELSE 52 + j
            r2 == DoubleMod(ts.us, k, 2000000)
            r == r2 % 1000000
            \* d is x rounded down (ties go to the even double)
            down == r < 500000 \/ (r = 500000 /\ r2 < 1000000)
        IN  IF down THEN r <= (IF wide THEN 512000 ELSE 256000) ELSE TRUE

\* toDate(timestampString): Math.round(parseFloat(ts) * 1000) milliseconds, in
\* binary floating point; the rounding to a millisecond can carry into the
\* next second
toDate(ts) ==
    LET ms == ts.us \div 1000 + (IF roundsUp(ts) THEN 1 ELSE 0)
    IN  formatDateTime(ts.sec + ms \div 1000)

(***************************************************************************)
(* The extractor.  A message element is a record                           *)
(*   hasSender, sender : the [data-qa="message_sender_name"] element        *)
(*   hasTs, ts         : the first [data-ts] element and its attribute      *)
(*   hasText           : the [data-qa="message-text"] element               *)
(*   blocks            : innerHTML of its .p-rich_text_block descendants    *)
(*   inner             : its own innerHTML (read when it has no blocks)     *)
(***************************************************************************)
RECURSIVE blocksHtml(_)
blocksHtml(blocks) ==
    IF blocks = <<>> THEN <<>> ELSE Head(blocks) \o <<NL>> \o blocksHtml(Tail(blocks))

\* the rawHtml extractRawMessageData builds before trimming
rawHtmlOf(el) == IF Len(el.blocks) > 0 THEN blocksHtml(el.blocks) ELSE el.inner

\* a slip: the blank check after the trim is left out
extractWithoutBlankCheck(el) ==
    IF ~el.hasText
    THEN [isNull |-> TRUE, hasAuthor |-> FALSE, author |-> <<>>,
          hasTs |-> FALSE, ts |-> [sec |-> 0, us |-> 0], rawHtml |-> <<>>]
    ELSE [isNull |-> FALSE,
          hasAuthor |-> el.hasSender, author |-> Trim(el.sender),
          hasTs |-> el.hasTs, ts |-> el.ts,
          rawHtml |-> Trim(rawHtmlOf(el))]

\* extractRawMessageData(messageElement): [isNull |-> TRUE] models null
extractRawMessageData(el) ==
    IF ~el.hasText \/ Trim(rawHtmlOf(el)) = <<>>
    THEN [isNull |-> TRUE, hasAuthor |-> FALSE, author |-> <<>>,
          hasTs |-> FALSE, ts |-> [sec |-> 0, us |-> 0], rawHtml |-> <<>>]
    ELSE [isNull |-> FALSE,
          hasAuthor |-> el.hasSender, author |-> Trim(el.sender),
          hasTs |-> el.hasTs, ts |-> el.ts,
          rawHtml |-> Trim(rawHtmlOf(el))]

(***************************************************************************)
(* The count field.                                                        *)
(***************************************************************************)
DigitVal(c) ==
    CASE c = "0" -> 0 [] c = "1" -> 1 [] c = "2" -> 2 [] c = "3" -> 3 [] c = "4" -> 4
      [] c = "5" -> 5 [] c = "6" -> 6 [] c = "7" -> 7 [] c = "8" -> 8 [] c = "9" -> 9

IsDigit(c) == c \in {"0", "1", "2", "3", "4", "5", "6", "7", "8", "9"}

\* the value of the longest prefix of digits of s, continuing from acc
RECURSIVE digitsValue(_, _)
digitsValue(s, acc) ==
    IF s # <<>> /\ IsDigit(Head(s)) THEN digitsValue(Tail(s), acc * 10 + DigitVal(Head(s)))
    ELSE acc

\* parseInt(string, 10): leading whitespace skipped, an optional sign, then the
\* longest run of digits; NaN when there is none
parseInt(string) ==
    LET t == TrimLeft(string)
        neg == t # <<>> /\ Head(t) = "-"
        u == IF t # <<>> /\ Head(t) \in {"-", "+"} THEN Tail(t) ELSE t
    IN  IF u = <<>> \/ ~IsDigit(Head(u)) THEN [nan |-> TRUE, val |-> 0]
        ELSE [nan |-> FALSE, val |-> IF neg THEN 0 - digitsValue(u, 0) ELSE digitsValue(u, 0)]

\* countInput ? countInput.value : '100'
countText(field) == IF field.present THEN field.value ELSE <<"1", "0", "0">>

\* a slip: count < 0 in place of count <= 0
effectiveCountZeroKept(field) ==
    LET n == parseInt(countText(field))
    IN  IF n.nan \/ n.val < 0 THEN 100 ELSE n.val

\* the count handleExportClick works with: the default when the field's value
\* is no number or is not positive
effectiveCount(field) ==
    LET n == parseInt(countText(field))
    IN  IF n.nan \/ n.val <= 0 THEN 100 ELSE n.val

\* a slip: messagesArray.slice(0, count), the first count elements
sliceFirst(len, n) == [k \in 1..Min(len, n) |-> k]

\* messagesArray.slice(-count), as the indices it keeps (count >= 1)
sliceLast(len, n) ==
    LET start == Max(len - n, 0)
    IN  [k \in 1..(len - start) |-> start + k]

(***************************************************************************)
(* The document and the file name.                                         *)
(***************************************************************************)
\* the least index at or after i where pat occurs in s, or 0
RECURSIVE IndexOf(_, _, _)
IndexOf(s, pat, i) ==
    IF i + Len(pat) - 1 > Len(s) THEN 0
    ELSE IF SubSeq(s, i, i + Len(pat) - 1) = pat THEN i
    ELSE IndexOf(s, pat, i + 1)

SlackSuffix == <<" ", "|", " ", "S", "l", "a", "c", "k">>

\* document.title.replace(' | Slack', '').trim(): the first occurrence is removed
channelTitleOf(t) ==
    LET i == IndexOf(t, SlackSuffix, 1)
    IN  Trim(IF i = 0 THEN t
             ELSE SubSeq(t, 1, i - 1) \o SubSeq(t, i + Len(SlackSuffix), Len(t)))

AlnumChars ==
    {"a", "b", "c", "d", "e", "f", "g", "h", "i", "j", "k", "l", "m", "n", "o", "p", "q",
     "r", "s", "t", "u", "v", "w", "x", "y", "z",
     "A", "B", "C", "D", "E", "F", "G", "H", "I", "J", "K", "L", "M", "N", "O", "P", "Q",
     "R", "S", "T", "U", "V", "W", "X", "Y", "Z",
     "0", "1", "2", "3", "4", "5", "6", "7", "8", "9"}

\* the replacement without the i flag: /[^a-z0-9]/g also replaces capitals
sanitizeCaseSensitive(s) ==
    [i \in 1..Len(s) |->
        IF s[i] \in AlnumChars /\ s[i] \notin
               {"A", "B", "C", "D", "E", "F", "G", "H", "I", "J", "K", "L", "M", "N", "O",
                "P", "Q", "R", "S", "T", "U", "V", "W", "X", "Y", "Z"}
        THEN s[i] ELSE "_"]

\* channelTitle.replace(/[^a-z0-9]/gi, '_')
RECURSIVE sanitize(_)
sanitize(s) ==
    IF s = <<>> THEN <<>>
    ELSE <<IF Head(s) \in AlnumChars THEN Head(s) ELSE "_">> \o sanitize(Tail(s))

\* `${channelTitle.replace(/[^a-z0-9]/gi, '_')}_export.md`
fileNameOf(channelTitle) == sanitize(channelTitle) \o <<"_export.md">>

\* the header of src/content.js: `# Conversation Export: ${channelTitle}\n\n---\n`
headerContent(channelTitle) ==
    <<"# Conversation Export: ">> \o channelTitle \o <<NL, NL, "---", NL>>

\* the header of src/unnamed/part_000:
\* `# Conversation Export: ${channelTitle} \n\n (Last ${exportedCount} messages)\n\n---\n\n`
headerPart000(channelTitle, n) ==
    <<"# Conversation Export: ">> \o channelTitle \o <<SP, NL, NL, SP, "(Last ">>
    \o NumToStr(n) \o <<" messages)", NL, NL, "---", NL, NL>>

headerOf(v, channelTitle, n) ==
    IF v = "content" THEN headerContent(channelTitle) ELSE headerPart000(channelTitle, n)

\* the rewriter the handler of file v calls
cleanHtmlOf(v, rawHtml) ==
    IF v = "content" THEN formatToMarkdown(rawHtml) ELSE formatToMarkdownPart000(rawHtml)

(***************************************************************************)
(* The inputs the model draws from.                                        *)
(***************************************************************************)
\* every sequence of at most n elements of S
SeqsUpTo(S, n) == UNION {[1..k -> S] : k \in 0..n}

NoTs == [sec |-> 0, us |-> 0]

\* 2023-11-14 22:13:20 UTC, in seconds since the epoch
BaseSec == 28333333 * 60 + 20

MessagePool ==
    { \* sender, machine timestamp, body without rich-text blocks
      [hasSender |-> TRUE, sender |-> <<SP, "Al", SP>>, hasTs |-> TRUE,
       ts |-> [sec |-> BaseSec, us |-> 0],
       hasText |-> TRUE, blocks |-> <<>>, inner |-> <<"a">>],
      \* no sender, the same minute, two rich-text blocks holding markup
      [hasSender |-> FALSE, sender |-> <<>>, hasTs |-> TRUE,
       ts |-> [sec |-> BaseSec + 10, us |-> 0],
       hasText |-> TRUE, blocks |-> << <<"<b>", "b", "</b>", "<br>", "c">>, <<"d">> >>,
       inner |-> <<"<div>", "<b>", "b", "</b>", "<br>", "c", "</div>", "<div>", "d", "</div>">>],
      \* blank sender, 22:13:59.9995: the double product rounds to 22:14:00.000
      [hasSender |-> TRUE, sender |-> <<SP>>, hasTs |-> TRUE,
       ts |-> [sec |-> BaseSec + 39, us |-> 999500],
       hasText |-> TRUE, blocks |-> <<>>, inner |-> <<SP, "e", NL>>],
      \* no timestamp element
      [hasSender |-> TRUE, sender |-> <<"Bo">>, hasTs |-> FALSE, ts |-> NoTs,
       hasText |-> TRUE, blocks |-> <<>>, inner |-> <<"f">>],
      \* no message-text region (an attachment-only message), a later minute
      [hasSender |-> TRUE, sender |-> <<"Al">>, hasTs |-> TRUE,
       ts |-> [sec |-> BaseSec + 100, us |-> 0],
       hasText |-> FALSE, blocks |-> <<>>, inner |-> <<>>],
      \* a message-text region whose blocks hold only whitespace, a later minute
      [hasSender |-> TRUE, sender |-> <<"Bo">>, hasTs |-> TRUE,
       ts |-> [sec |-> BaseSec + 100, us |-> 0],
       hasText |-> TRUE, blocks |-> << <<>>, <<SP>> >>,
       inner |-> <<"<div>", "</div>", "<div>", SP, "</div>">>],
      \* data-ts="0": a non-empty attribute, the epoch
      [hasSender |-> FALSE, sender |-> <<>>, hasTs |-> TRUE, ts |-> NoTs,
       hasText |-> TRUE, blocks |-> <<>>, inner |-> <<"g">>] }

CountFields ==
    { [present |-> FALSE, value |-> <<>>],
      [present |-> TRUE, value |-> <<>>],
      [present |-> TRUE, value |-> <<"0">>],
      [present |-> TRUE, value |-> <<"-", "2">>],
      [present |-> TRUE, value |-> <<"x">>],
      [present |-> TRUE, value |-> <<"1">>],
      [present |-> TRUE, value |-> <<"2">>],
      [present |-> TRUE, value |-> <<"1", "2">>] }

Titles ==
    { <<"G", "e", "n", "e", "r", "a", "l", " ", "|", " ", "S", "l", "a", "c", "k">>,
      <<"o", "p", "s", "-", "2", " ", "|", " ", "S", "l", "a", "c", "k", " ", "H", "Q">> }

Variants == {"content", "part000"}

NoAlert == [kind |-> "none", fileName |-> <<>>, n |-> 0]

(***************************************************************************)
(* insertExportButton and observeDOM.  The script's code runs to           *)
(* completion: the initial call and each run of the observer's callback    *)
(* are single steps, and the host changes the document between them and    *)
(* never while handleExportClick runs.  The observer is told of every      *)
(* change under document.body, the script's own insertion and the download *)
(* link of handleExportClick included; the records not yet delivered are   *)
(* kept by origin and delivered together.                                  *)
(***************************************************************************)
ReadyStates == {"loading", "interactive", "complete"}

\* the div insertExportButton builds: the count field and the export button,
\* the button with handleExportClick as its click listener; what the field
\* holds is countField
controlsContainer ==
    [id |-> "slack-exporter-controls",
     inputs |-> <<[id |-> "message-count-input"]>>,
     buttons |-> <<[id |-> "markdown-export-btn",
                    clickListeners |-> <<"handleExportClick">>]>>]

\* closest() taken to find a container for every header button
closestAlwaysFound(button) == button # "none"

\* targetContainer.closest('.p-view_header__actions') is not null
closestActions(button) == button = "inActions"

\* countInput.value = '100'
defaultCountField == [present |-> TRUE, value |-> <<"1", "0", "0">>]

\* insertExportButton(), the records queued before the call being records
insertExportButton(records) ==
    IF /\ headerButton # "none"
       /\ closestActions(headerButton)
       /\ controls = <<>>
    THEN /\ controls' = <<controlsContainer>> \o controls
         /\ countField' = defaultCountField
         /\ pendingRecords' = records \cup {"insertion"}
    ELSE /\ controls' = controls
         /\ countField' = countField
         /\ pendingRecords' = records

\* the records after a change made by the host
hostRecords ==
    IF injPc = "observing" THEN pendingRecords \cup {"host"} ELSE pendingRecords

\* no code of the script is running
scriptIdle == pc \in {"off", "done"}

\* the state observeDOM() and the callbacks delivered since leave the
\* document in, on a page with this header
ScriptLoaded(button, actions, ctrls) ==
    /\ readyState = "complete"
    /\ injPc = "observing"
    /\ headerButton = button
    /\ actionsContainer = actions
    /\ controls = ctrls
    /\ pendingRecords = {}
    /\ rerenders = 0

\* observeDOM(): the observer is registered, then the first attempt is made
ObserveDOM ==
    /\ injPc = "start"
    /\ injPc' = "observing"
    /\ IF readyState \in {"complete", "interactive"}
       THEN insertExportButton({})
       ELSE UNCHANGED <<controls, countField, pendingRecords>>
    /\ UNCHANGED <<readyState, headerButton, actionsContainer, rerenders,
                   handlerVars, fmtVars>>

\* the observer's callback is run with the records queued so far
ObserverCallback ==
    /\ injPc = "observing"
    /\ scriptIdle
    /\ pendingRecords # {}
    /\ IF headerButton # "none" /\ controls = <<>>
       THEN insertExportButton({})
       ELSE /\ controls' = controls
            /\ countField' = countField
            /\ pendingRecords' = {}
    /\ UNCHANGED <<readyState, injPc, headerButton, actionsContainer, rerenders,
                   handlerVars, fmtVars>>

\* the host renders an (empty) actions container
HostAddActions ==
    /\ scriptIdle
    /\ ~actionsContainer
    /\ actionsContainer' = TRUE
    /\ pendingRecords' = hostRecords
    /\ UNCHANGED <<readyState, injPc, headerButton, controls, rerenders,
                   exportVars, fmtVars>>

\* the host renders the header button, inside the actions container or not
HostAddButton ==
    /\ scriptIdle
    /\ headerButton = "none"
    /\ \E where \in {"inActions", "elsewhere"} :
          /\ where = "inActions" => actionsContainer
          /\ headerButton' = where
    /\ pendingRecords' = hostRecords
    /\ UNCHANGED <<readyState, injPc, actionsContainer, controls, rerenders,
                   exportVars, fmtVars>>

\* the host removes the header button alone
HostRemoveButton ==
    /\ scriptIdle
    /\ headerButton # "none"
    /\ headerButton' = "none"
    /\ pendingRecords' = hostRecords
    /\ UNCHANGED <<readyState, injPc, actionsContainer, controls, rerenders,
                   exportVars, fmtVars>>

\* the host removes the actions container with everything inside it
HostRemoveActions ==
    /\ scriptIdle
    /\ actionsContainer
    /\ controls # <<>> => rerenders < MaxRerenders
    /\ actionsContainer' = FALSE
    /\ headerButton' = (IF headerButton = "inActions" THEN "none" ELSE headerButton)
    /\ controls' = <<>>
    /\ countField' = (IF controls # <<>> THEN [present |-> FALSE, value |-> <<>>]
                       ELSE countField)
    /\ rerenders' = (IF controls # <<>> THEN rerenders + 1 ELSE rerenders)
    /\ pendingRecords' = hostRecords
    /\ UNCHANGED <<readyState, injPc, handlerVars, fmtVars>>

\* a re-render of the host drops the controls and keeps the container
HostRemoveControls ==
    /\ scriptIdle
    /\ controls # <<>>
    /\ rerenders < MaxRerenders
    /\ controls' = <<>>
    /\ countField' = [present |-> FALSE, value |-> <<>>]
    /\ rerenders' = rerenders + 1
    /\ pendingRecords' = hostRecords
    /\ UNCHANGED <<readyState, injPc, headerButton, actionsContainer,
                   handlerVars, fmtVars>>

(***************************************************************************)
(* handleExportClick, step by step.                                        *)
(***************************************************************************)
InitExport ==
    /\ variant \in Variants
    /\ countField \in CountFields
    /\ container \in BOOLEAN
    /\ messages \in (IF container THEN SeqsUpTo(MessagePool, MaxMsgs) ELSE {<<>>})
    /\ title \in Titles
    /\ pc = "idle"
    /\ count = 0
    /\ lastNMessages = <<>>
    /\ pos = 0
    /\ markdownContent = <<>>
    /\ exportedCount = 0
    /\ prevFormatedTimestamp = <<>>
    /\ alerts = <<>>
    /\ downloads = <<>>
    /\ processed = <<>>
    /\ tsLines = <<>>
    /\ fmtInput = <<>>
    /\ fmtOut = <<>>
    /\ fmtPc = "off"
    /\ \/ ScriptLoaded("none", FALSE, <<>>)
       \/ countField.present /\ ScriptLoaded("inActions", TRUE, <<controlsContainer>>)

\* the click, when the container is missing: a notice, and the run ends
NoContainer ==
    /\ pc = "idle"
    /\ ~container
    /\ count' = effectiveCount(countField)
    /\ alerts' = Append(alerts, [NoAlert EXCEPT !.kind = "no_container"])
    /\ pc' = "done"
    /\ UNCHANGED <<variant, countField, container, messages, title, lastNMessages, pos,
                   markdownContent, exportedCount, prevFormatedTimestamp, downloads,
                   processed, tsLines, fmtVars, injVars>>

\* the click, when the container holds no message element
NoMessages ==
    /\ pc = "idle"
    /\ container
    /\ Len(messages) = 0
    /\ count' = effectiveCount(countField)
    /\ alerts' = Append(alerts, [NoAlert EXCEPT !.kind = "no_messages"])
    /\ pc' = "done"
    /\ UNCHANGED <<variant, countField, container, messages, title, lastNMessages, pos,
                   markdownContent, exportedCount, prevFormatedTimestamp, downloads,
                   processed, tsLines, fmtVars, injVars>>

\* the click, otherwise: the last count elements are selected and the loop starts
Select ==
    /\ pc = "idle"
    /\ container
    /\ Len(messages) > 0
    /\ count' = effectiveCount(countField)
    /\ lastNMessages' = sliceLast(Len(messages), count')
    /\ pos' = 1
    /\ markdownContent' = <<>>
    /\ exportedCount' = 0
    /\ prevFormatedTimestamp' = <<>>
    /\ pc' = "loop"
    /\ UNCHANGED <<variant, countField, container, messages, title, alerts, downloads,
                   processed, tsLines, fmtVars, injVars>>

\* one iteration of the loop whose element yields no RawMessage: continue
LoopSkip ==
    /\ pc = "loop"
    /\ pos <= Len(lastNMessages)
    /\ extractRawMessageData(messages[lastNMessages[pos]]).isNull
    /\ processed' = Append(processed, lastNMessages[pos])
    /\ pos' = pos + 1
    /\ UNCHANGED <<variant, countField, container, messages, title, pc, count,
                   lastNMessages, markdownContent, exportedCount, prevFormatedTimestamp,
                   alerts, downloads, tsLines, fmtVars, injVars>>

\* what one iteration appends for the author
authorPart(rawData) ==
    IF rawData.hasAuthor /\ rawData.author # <<>>
    THEN <<NL, "**">> \o rawData.author \o <<"**", NL>>
    ELSE <<>>

\* a slip: the comparison with the previous timestamp is left out
emitsTimestampAlways(rawData, prev) == rawData.hasTs

\* whether one iteration appends a timestamp line
emitsTimestamp(rawData, prev) == rawData.hasTs /\ prev # toDate(rawData.ts)

\* one iteration of the loop whose element yields a RawMessage
LoopEmit ==
    /\ pc = "loop"
    /\ pos <= Len(lastNMessages)
    /\ LET rawData == extractRawMessageData(messages[lastNMessages[pos]])
           emit == emitsTimestamp(rawData, prevFormatedTimestamp)
           curr == toDate(rawData.ts)
       IN  /\ ~rawData.isNull
           /\ markdownContent' =
                  markdownContent \o authorPart(rawData)
                  \o (IF emit THEN curr \o <<NL>> ELSE <<>>)
                  \o cleanHtmlOf(variant, rawData.rawHtml) \o <<NL>>
           /\ prevFormatedTimestamp' = IF emit THEN curr ELSE prevFormatedTimestamp
           /\ tsLines' = IF emit THEN Append(tsLines, curr) ELSE tsLines
    /\ exportedCount' = exportedCount + 1
    /\ processed' = Append(processed, lastNMessages[pos])
    /\ pos' = pos + 1
    /\ UNCHANGED <<variant, countField, container, messages, title, pc, count,
                   lastNMessages, alerts, downloads, fmtVars, injVars>>

\* after the loop, nothing was appended: a notice and no file
FinishEmpty ==
    /\ pc = "loop"
    /\ pos > Len(lastNMessages)
    /\ markdownContent = <<>>
    /\ alerts' = Append(alerts, [NoAlert EXCEPT !.kind = "nothing_extracted"])
    /\ pc' = "done"
    /\ UNCHANGED <<variant, countField, container, messages, title, count, lastNMessages,
                   pos, markdownContent, exportedCount, prevFormatedTimestamp, downloads,
                   processed, tsLines, fmtVars, injVars>>

\* after the loop, otherwise: the document is downloaded and the run reports it
FinishDownload ==
    /\ pc = "loop"
    /\ pos > Len(lastNMessages)
    /\ markdownContent # <<>>
    /\ LET channelTitle == channelTitleOf(title)
           fileName == fileNameOf(channelTitle)
       IN  /\ downloads' = Append(downloads,
                  [name |-> fileName,
                   content |-> headerOf(variant, channelTitle, exportedCount)
                               \o markdownContent])
           /\ alerts' = Append(alerts,
                  [kind |-> "complete", fileName |-> fileName, n |-> exportedCount])
    /\ pendingRecords' =
          (IF injPc = "observing" THEN pendingRecords \cup {"linkAppended", "linkRemoved"}
           ELSE pendingRecords)
    /\ pc' = "done"
    /\ UNCHANGED <<variant, countField, container, messages, title, count, lastNMessages,
                   pos, markdownContent, exportedCount, prevFormatedTimestamp,
                   processed, tsLines, fmtVars, domVars>>

Next ==
    \/ NoContainer
    \/ NoMessages
    \/ Select
    \/ LoopSkip
    \/ LoopEmit
    \/ FinishEmpty
    \/ FinishDownload
    \/ ObserverCallback

Spec == InitExport /\ [][Next]_vars

(***************************************************************************)
(* The script from its load on: observeDOM, the host's changes of the      *)
(* header, and one click of the export button.                             *)
(***************************************************************************)
InitInject ==
    /\ readyState \in ReadyStates
    /\ injPc = "start"
    /\ actionsContainer \in BOOLEAN
    /\ headerButton \in (IF actionsContainer THEN {"none", "inActions", "elsewhere"}
                         ELSE {"none", "elsewhere"})
    /\ controls = <<>>
    /\ pendingRecords = {}
    /\ rerenders = 0
    /\ variant \in Variants
    /\ countField = [present |-> FALSE, value |-> <<>>]
    /\ container \in BOOLEAN
    /\ messages \in (IF container THEN SeqsUpTo(MessagePool, MaxClickMsgs) ELSE {<<>>})
    /\ title \in Titles
    /\ pc = "off"
    /\ count = 0
    /\ lastNMessages = <<>>
    /\ pos = 0
    /\ markdownContent = <<>>
    /\ exportedCount = 0
    /\ prevFormatedTimestamp = <<>>
    /\ alerts = <<>>
    /\ downloads = <<>>
    /\ processed = <<>>
    /\ tsLines = <<>>
    /\ fmtInput = <<>>
    /\ fmtOut = <<>>
    /\ fmtPc = "off"

\* the export button is clicked: its click listener, handleExportClick, is called
ClickExport ==
    /\ pc = "off"
    /\ Len(controls) >= 1
    /\ Len(controls[1].buttons[1].clickListeners) >= 1
    /\ pc' = "idle"
    /\ UNCHANGED <<variant, countField, container, messages, title, count, lastNMessages,
                   pos, markdownContent, exportedCount, prevFormatedTimestamp, alerts,
                   downloads, processed, tsLines, fmtVars, injVars>>

NextInject ==
    \/ ObserveDOM
    \/ ObserverCallback
    \/ HostAddActions
    \/ HostAddButton
    \/ HostRemoveButton
    \/ HostRemoveActions
    \/ HostRemoveControls
    \/ ClickExport
    \/ NoContainer
    \/ NoMessages
    \/ Select
    \/ LoopSkip
    \/ LoopEmit
    \/ FinishEmpty
    \/ FinishDownload

SpecInject == InitInject /\ [][NextInject]_vars

(***************************************************************************)
(* formatToMarkdown as a pure function: the input is drawn at the start    *)
(* and either file's rewriter is applied to it.                            *)
(***************************************************************************)
InitFormat(Inputs) ==
    /\ fmtInput \in Inputs
    /\ fmtOut = <<>>
    /\ fmtPc = "ready"
    /\ variant = "content"
    /\ countField = [present |-> FALSE, value |-> <<>>]
    /\ container = FALSE
    /\ messages = <<>>
    /\ title = <<>>
    /\ pc = "off"
    /\ count = 0
    /\ lastNMessages = <<>>
    /\ pos = 0
    /\ markdownContent = <<>>
    /\ exportedCount = 0
    /\ prevFormatedTimestamp = <<>>
    /\ alerts = <<>>
    /\ downloads = <<>>
    /\ processed = <<>>
    /\ tsLines = <<>>
    /\ ScriptLoaded("none", FALSE, <<>>)

\* formatToMarkdown of src/content.js is called
FormatContent ==
    /\ fmtPc = "ready"
    /\ fmtOut' = formatToMarkdown(fmtInput)
    /\ fmtPc' = "content"
    /\ UNCHANGED <<fmtInput, exportVars, injVars>>

\* formatToMarkdown of src/unnamed/part_000 is called
FormatPart000 ==
    /\ fmtPc = "ready"
    /\ fmtOut' = formatToMarkdownPart000(fmtInput)
    /\ fmtPc' = "part000"
    /\ UNCHANGED <<fmtInput, exportVars, injVars>>

NextFormat == FormatContent \/ FormatPart000

\* the inputs built from at most MaxSegs of the segments Segs
InputsFrom(Segs) == {Concat(ss) : ss \in SeqsUpTo(Segs, MaxSegs)}

QuoteSegs ==
    { <<"a">>, <<SP>>, <<NL>>, <<"<br>">>, <<"<blockquote>">>, <<"</blockquote>">>,
      <<"<blockquote>", "a", "</blockquote>">>,
      <<"<blockquote>", SP, "a", "<br>", "b", SP, "</blockquote>">> }

ListSegs ==
    { <<"x">>, <<NL>>, <<OlBorder0>>, <<"</ol>">>, <<"<li>", "a", "</li>">>,
      <<OlBorder0, "<li>", "a", "</li>", "<li>", SP, "b", "</li>", "</ol>">>,
      <<OlBorder1, "<li>", "a", "</li>", "<li>", "b", "</li>", "</ol>">>,
      <<OlBorder0, "<li>", "a", "<br>", "b", "</li>", "<li>", "c", "</li>", "</ol>">>,
      <<OlPlain, "<li>", "a", "</li>", "</ol>">> }

InlineSegs ==
    { <<"<strong>", "Hi", "</strong>">>, <<SP>>,
      <<"<a href=\"http://x\">", "there", "</a>">>, <<"<br>", "line2">>,
      <<"<i>", "x", "</i>">>, <<"<code>", "y", "</code>">> }

WsTokens == {"a", SP, NL, TAB, "<br>"}

SpecQuote == InitFormat(InputsFrom(QuoteSegs)) /\ [][NextFormat]_vars
SpecList == InitFormat(InputsFrom(ListSegs)) /\ [][NextFormat]_vars
SpecInline == InitFormat(InputsFrom(InlineSegs)) /\ [][NextFormat]_vars
SpecWs == InitFormat(SeqsUpTo(WsTokens, MaxWsLen)) /\ [][NextFormat]_vars

(***************************************************************************)
(* Notions the properties are stated with.                                 *)
(***************************************************************************)
Last(s) == s[Len(s)]

\* the element yields a RawMessage: it has a message-text region whose markup
\* holds something other than whitespace
YieldsRaw(el) ==
    /\ el.hasText
    /\ \E i \in 1..Len(rawHtmlOf(el)) : ~IsWs(rawHtmlOf(el)[i])

\* the window of a run: the (1-based) indices of the last n of D elements
WindowLo(D, n) == Max(0, D - n)
Window(D, n) == (WindowLo(D, n) + 1)..D

\* the run got as far as selecting messages
Selected == pc \in {"loop", "done"} /\ container /\ Len(messages) >= 1

\* C1: the loop is entered with exactly the elements of the tail window
\* max(0, D-n)..D-1 (here 1-based: max(0, D-n)+1..D), each once and in document
\* order, all of them by the end of the run; with n >= D that is every element.
C1_TailWindow ==
    Selected =>
        LET D == Len(messages)
            lo == WindowLo(D, count)
        IN  /\ count >= 1
            /\ Len(processed) <= D - lo
            /\ processed = [k \in 1..Len(processed) |-> lo + k]
            /\ (pc = "done" => Len(processed) = D - lo)
            /\ (count >= D /\ pc = "done" => processed = [k \in 1..D |-> k])

C1_Witness ==
    /\ pc = "done"
    /\ Len(messages) = 3
    /\ count = 2
    /\ processed = <<2, 3>>

\* C2: a run ends with a file if and only if some element of its window yields
\* a RawMessage; a run without container, without elements or with only skipped
\* elements ends with a failure notice and no file; every finished run has shown
\* exactly one notice and at most one file, and an unfinished run none of either.
C2_EmptyResultSignal ==
    /\ (pc # "done" => alerts = <<>> /\ downloads = <<>>)
    /\ (pc = "done" =>
            LET D == Len(messages)
                some == /\ container
                        /\ \E i \in Window(D, count) : YieldsRaw(messages[i])
            IN  /\ Len(alerts) = 1
                /\ Len(downloads) = (IF some THEN 1 ELSE 0)
                /\ (some <=> alerts[1].kind = "complete")
                /\ (~container => alerts[1].kind = "no_container")
                /\ (container /\ D = 0 => alerts[1].kind = "no_messages")
                /\ (container /\ D > 0 /\ ~some => alerts[1].kind = "nothing_extracted"))

C2_Witness ==
    /\ pc = "done"
    /\ Len(messages) = 3
    /\ count = 2
    /\ YieldsRaw(messages[1])
    /\ ~YieldsRaw(messages[2])
    /\ ~YieldsRaw(messages[3])
    /\ messages[2].hasText
    /\ downloads = <<>>
    /\ alerts = <<[NoAlert EXCEPT !.kind = "nothing_extracted"]>>

\* the timestamp lines the claimed policy emits for the elements idx, in order,
\* after the lines acc: a line for an element that yields a RawMessage and has a
\* timestamp whose formatted value differs from the line emitted last
RECURSIVE DedupLines(_, _)
DedupLines(idx, acc) ==
    IF idx = <<>> THEN acc
    ELSE LET el == messages[Head(idx)]
             f == toDate(el.ts)
         IN  DedupLines(Tail(idx),
                 IF YieldsRaw(el) /\ el.hasTs /\ (acc = <<>> \/ Last(acc) # f)
                 THEN Append(acc, f) ELSE acc)

\* C3: the timestamp lines the loop has emitted are those of the de-duplication
\* policy over the records processed so far: one line for a record with a
\* timestamp whose formatted value differs from the line emitted last, so no two
\* successive lines are equal; the remembered previous timestamp is the line
\* emitted last, which skipped records and records without timestamp leave alone.
C3_TimestampDedup ==
    Selected =>
        /\ tsLines = DedupLines(processed, <<>>)
        /\ \A i \in 1..(Len(tsLines) - 1) : tsLines[i] # tsLines[i + 1]
        /\ prevFormatedTimestamp = (IF tsLines = <<>> THEN <<>> ELSE Last(tsLines))

\* two records of one minute (22:13:20 and 22:13:30) with a skipped record of a
\* later minute between them: one timestamp line
C3_Witness ==
    /\ pc = "done"
    /\ Len(processed) = 3
    /\ YieldsRaw(messages[1]) /\ messages[1].hasTs
    /\ ~YieldsRaw(messages[2]) /\ messages[2].hasTs
    /\ YieldsRaw(messages[3]) /\ messages[3].hasTs
    /\ messages[1].ts # messages[3].ts
    /\ toDate(messages[2].ts) # toDate(messages[1].ts)
    /\ tsLines = <<toDate(messages[1].ts)>>
    /\ tsLines = << <<"2", "0", "2", "3", ".", "1", "1", ".", "1", "4", SP,
                    "2", "2", ":", "1", "3">> >>

\* the number of elements of the window that yield a RawMessage
ExportedOfWindow ==
    Cardinality({i \in Window(Len(messages), count) : YieldsRaw(messages[i])})

\* the line of the header that reports the count
CountLine(n) == <<"(Last ">> \o NumToStr(n) \o <<" messages)">>

\* the part of a downloaded document in front of the accumulated body
HeadOf(doc) == SubSeq(doc, 1, Len(doc) - Len(markdownContent))

\* C4 (as claimed): the document src/content.js downloads is a header followed
\* by the accumulated body, and the header holds the title and the line
\* "(Last N messages)" with N the number of windowed messages that yielded a
\* RawMessage.
C4_HeaderHoldsCount ==
    (pc = "done" /\ variant = "content" /\ downloads # <<>>) =>
        LET doc == downloads[1].content
            head == HeadOf(doc)
        IN  /\ doc = head \o markdownContent
            /\ head[1] = "# Conversation Export: "
            /\ IndexOf(head, channelTitleOf(title), 1) > 0
            /\ IndexOf(head, <<"---", NL>>, 1) > 0
            /\ exportedCount = ExportedOfWindow
            /\ IndexOf(head, CountLine(ExportedOfWindow), 1) > 0

\* C10: once the handler has read the count field, the count it works with is
\* the field's value when that parses to a positive integer and 100 otherwise
\* (no field, empty, no number, zero, negative); it is at least 1, the window of
\* a non-empty container is never empty, and the run ends with its notice.
C10_EffectiveCount ==
    pc # "idle" =>
        LET v == countField.value
            p == parseInt(v)
        IN  /\ count = (IF countField.present /\ ~p.nan /\ p.val > 0 THEN p.val ELSE 100)
            /\ count = (CASE countField.present /\ v = <<"1">> -> 1
                          [] countField.present /\ v = <<"2">> -> 2
                          [] countField.present /\ v = <<"1", "2">> -> 12
                          [] OTHER -> 100)
            /\ count >= 1
            /\ (Selected => Len(lastNMessages) >= 1)
            /\ (pc = "done" => Len(alerts) = 1)

C10_Witness ==
    /\ pc = "done"
    /\ countField = [present |-> TRUE, value |-> <<"0">>]
    /\ count = 100
    /\ Len(messages) = 2
    /\ processed = <<1, 2>>

(***************************************************************************)
(* Properties of the rewriters.                                            *)
(***************************************************************************)
\* a quoted line: it starts with '>' and ends with a non-whitespace character
IsQuotedLine(l) == Len(l) >= 1 /\ l[1] = GT /\ ~IsWs(l[Len(l)])

\* a quoted line is immediately followed by a non-empty line that is not quoted
QuoteRunsIntoText(text) ==
    LET ls == SplitNL(text)
    IN  \E i \in 1..(Len(ls) - 1) :
            /\ IsQuotedLine(ls[i])
            /\ ls[i + 1] # <<>>
            /\ ls[i + 1][1] # GT

\* C5 (as claimed): in what formatToMarkdown of src/content.js returns, no quoted
\* line is immediately followed by a non-empty line that does not start with '>'.
C5_QuoteSeparated == fmtPc = "content" => ~QuoteRunsIntoText(fmtOut)

\* the input holds one quote construct, of text and line breaks, between
\* unquoted text
QuoteShape(s) ==
    LET i == FirstIdx(s, 1, BlockquoteOpen)
        j == IF i = 0 THEN 0 ELSE FirstIdx(s, i + 1, BlockquoteClose)
    IN  /\ i > 0
        /\ j > 0
        /\ \A k \in (1..Len(s)) \ {i, j} :
               /\ s[k] \notin BlockquoteOpen \cup BlockquoteClose
               /\ s[k] \in Tags => s[k] \in BrTags
               /\ s[k] # GT

\* the lines `> <line>` for the given lines, each ended by a newline
RECURSIVE QuotedText(_)
QuotedText(lines) ==
    IF lines = <<>> THEN <<>>
    ELSE <<GT, SP>> \o Head(lines) \o <<NL>> \o QuotedText(Tail(lines))

RECURSIVE TrimAll(_)
TrimAll(lines) ==
    IF lines = <<>> THEN <<>> ELSE <<Trim(Head(lines))>> \o TrimAll(Tail(lines))

\* what is claimed of the output out for the input s holding one quote
\* construct: n lines in a row are the lines "> <trimmed inner line>", no
\* other line starts with '>', and between the text before and the text after
\* nothing is added but, when text follows, at most one blank line
QuoteLinesOf(s, text) ==
    LET i == FirstIdx(s, 1, BlockquoteOpen)
        j == FirstIdx(s, i + 1, BlockquoteClose)
        before == replaceBr(SubSeq(s, 1, i - 1))
        inner == TrimAll(SplitNL(replaceBr(SubSeq(s, i + 1, j - 1))))
        n == Len(inner)
        rest == replaceBr(SubSeq(s, j + 1, Len(s)))
        out == SplitNL(text)
    IN  /\ \E p \in 0..(Len(out) - n) :
               /\ \A k \in 1..n : out[p + k] = <<GT, SP>> \o inner[k]
               /\ \A k \in (1..Len(out)) \ ((p + 1)..(p + n)) :
                      out[k] = <<>> \/ out[k][1] # GT
        /\ \/ text = before \o QuotedText(inner) \o rest
           \/ rest # <<>> /\ text = before \o QuotedText(inner) \o <<NL>> \o rest

\* C6 (as claimed): for a quote construct of n inner lines separated by line
\* breaks, formatToMarkdown of src/content.js returns exactly n lines for the
\* quote, each "> <trimmed inner line>", one after the other with no blank
\* line between them; a blank line is added only after the last of them, when
\* text follows.
C6_QuoteLines ==
    (fmtPc = "content" /\ QuoteShape(fmtInput)) => QuoteLinesOf(fmtInput, fmtOut)

AnyOlOpen == {OlBorder0, OlBorder1, OlPlain}

\* the items of a list: what stands between each <li> and the </li> after it
RECURSIVE ItemsOf(_)
ItemsOf(c) ==
    LET i == FirstIdx(c, 1, LiOpen)
        j == IF i = 0 THEN 0 ELSE FirstIdx(c, i + 1, LiClose)
    IN  IF i = 0 \/ j = 0 THEN <<>>
        ELSE <<SubSeq(c, i + 1, j - 1)>> \o ItemsOf(SubSeq(c, j + 1, Len(c)))

\* the ordered-list constructs of an input: [tag, items]
RECURSIVE ListsOf(_)
ListsOf(s) ==
    LET i == FirstIdx(s, 1, AnyOlOpen)
        j == IF i = 0 THEN 0 ELSE FirstIdx(s, i + 1, OlClose)
    IN  IF i = 0 \/ j = 0 THEN <<>>
        ELSE <<[tag |-> s[i], items |-> ItemsOf(SubSeq(s, i + 1, j - 1))]>>
             \o ListsOf(SubSeq(s, j + 1, Len(s)))

\* the line claimed for the i-th item of a list: "i. <content>", after "> " when
\* the list carries the bordered marker
ItemLine(tag, i, item) ==
    (IF tag = OlBorder1 THEN <<GT, SP>> ELSE <<>>)
    \o NumToStr(i) \o <<".", SP>> \o Trim(stripTags(replaceBr(item))) \o <<NL>>

\* C7 (as claimed): for every ordered-list construct of the input, what
\* formatToMarkdown of src/content.js returns holds, for the i-th item of the
\* list, the line "i. <content>" (after "> " for a bordered list), i counted
\* from 1 in every list.
C7_ListNumbering ==
    fmtPc = "content" =>
        \A k \in 1..Len(ListsOf(fmtInput)) :
            LET l == ListsOf(fmtInput)[k]
            IN  \A i \in 1..Len(l.items) :
                    IndexOf(fmtOut, ItemLine(l.tag, i, l.items[i]), 1) > 0

\* the token that stands for the backtick character
BT == "(backtick)"

\* the portable markup claimed for inline constructs and line breaks
RECURSIVE InlineMarkdown(_)
InlineMarkdown(s) ==
    IF s = <<>> THEN <<>>
    ELSE LET h == Head(s)
         IN  (CASE h \in {"<strong>", "</strong>", "<b>", "</b>"} -> <<"**">>
                [] h \in {"<i>", "</i>", "<em>", "</em>"} -> <<"*">>
                [] h \in {"<code>", "</code>"} -> <<BT>>
                [] h = "<a href=\"http://x\">" -> <<"[">>
                [] h = "</a>" -> <<"](http://x)">>
                [] h \in BrTags -> <<NL>>
                [] OTHER -> <<h>>)
             \o InlineMarkdown(Tail(s))

ExampleRaw ==
    <<"<strong>", "Hi", "</strong>", SP, "<a href=\"http://x\">", "there", "</a>",
      "<br>", "line2">>

ExampleExpected == <<"**", "Hi", "**", SP, "[", "there", "](http://x)", NL, "line2">>

\* C8 (as claimed): formatToMarkdown of src/content.js turns bold into **text**,
\* italic into *text*, inline code into `text` and an anchor into [text](href);
\* the raw body of the example yields '**Hi** [there](http://x)\nline2'.
C8_InlinePreserved ==
    fmtPc = "content" =>
        /\ fmtOut = InlineMarkdown(fmtInput)
        /\ (fmtInput = ExampleRaw => fmtOut = ExampleExpected)

\* every whitespace run of s is made of newlines only or of spaces only
PureRuns(s) ==
    /\ \A i \in 1..Len(s) : s[i] # TAB
    /\ \A i \in 1..(Len(s) - 1) : IsWs(s[i]) /\ IsWs(s[i + 1]) => s[i] = s[i + 1]

\* the claimed normalisation of a text with pure runs: a run of newlines keeps
\* one newline, or two when it holds two or more; a run of spaces becomes one
RECURSIVE NormalizeWs(_, _)
NormalizeWs(s, i) ==
    IF i > Len(s) THEN <<>>
    ELSE IF ~IsWs(s[i]) THEN <<s[i]>> \o NormalizeWs(s, i + 1)
    ELSE (IF s[i] = NL THEN (IF WsEnd(s, i) - i >= 2 THEN <<NL, NL>> ELSE <<NL>>)
          ELSE <<SP>>)
         \o NormalizeWs(s, WsEnd(s, i))

\* C9 (as claimed): formatToMarkdown of src/unnamed/part_000 collapses three or
\* more newlines to two and a run of spaces to one space, and keeps a single
\* newline and a blank line (two newlines) as they are.
C9_WhitespaceNormalized ==
    fmtPc = "part000" =>
        LET t == Trim(replaceBr(fmtInput))
        IN  PureRuns(t) => fmtOut = NormalizeWs(t, 1)

(***************************************************************************)
(* The name of the downloaded file.                                        *)
(***************************************************************************)
\* the title with ' | Slack' removed where it ends the title, trimmed
SuffixRemoved(t) ==
    LET n == Len(t) - Len(SlackSuffix)
    IN  Trim(IF n >= 0 /\ SubSeq(t, n + 1, Len(t)) = SlackSuffix THEN SubSeq(t, 1, n)
             ELSE t)

\* name is '<S>_export.md', S being ct with each character outside
\* [A-Za-z0-9] replaced by '_' and every other character kept in place
NamedAfter(name, ct) ==
    /\ Len(name) = Len(ct) + 1
    /\ name[Len(name)] = "_export.md"
    /\ \A i \in 1..Len(ct) :
          /\ name[i] \in AlnumChars \cup {"_"}
          /\ (ct[i] \in AlnumChars => name[i] = ct[i])
          /\ (ct[i] \notin AlnumChars => name[i] = "_")

GeneralSlack == <<"G", "e", "n", "e", "r", "a", "l", " ", "|", " ", "S", "l", "a", "c", "k">>
GeneralExport == <<"G", "e", "n", "e", "r", "a", "l", "_export.md">>

\* C11 (as claimed): the download is named after the page title with its
\* ' | Slack' suffix removed and trimmed, each character outside [A-Za-z0-9]
\* replaced by '_' and every other character kept in place.
C11_NamedAfterSuffixlessTitle ==
    \A k \in 1..Len(downloads) : NamedAfter(downloads[k].name, SuffixRemoved(title))

\* C11 (amended): the download is named after the page title with the first
\* occurrence of ' | Slack' removed, wherever it stands, and then trimmed:
\* '<S>_export.md', where S has that channel title's length, holds only
\* [A-Za-z0-9_], keeps each character of [A-Za-z0-9] in place and has '_' at
\* every other place; the title 'General | Slack' gives 'General_export.md',
\* and the completion notice names the same file.
C11_FileName ==
    \A k \in 1..Len(downloads) :
        /\ NamedAfter(downloads[k].name, channelTitleOf(title))
        /\ (title = GeneralSlack => downloads[k].name = GeneralExport)
        /\ alerts[Len(alerts)].fileName = downloads[k].name

\* a file was downloaded from a page titled 'ops-2 | Slack HQ', whose channel
\* title 'ops-2 HQ' holds capitals, a digit and characters outside [A-Za-z0-9]
C11_Witness ==
    /\ pc = "done"
    /\ Len(downloads) = 1
    /\ channelTitleOf(title) = <<"o", "p", "s", "-", "2", " ", "H", "Q">>
    /\ downloads[1].name = <<"o", "p", "s", "_", "2", "_", "H", "Q", "_export.md">>

(***************************************************************************)
(* The injection of the controls.                                          *)
(***************************************************************************)
\* the document holds at most one controls element, and it holds one count
\* field and one export button with one click listener
AtMostOneControls ==
    /\ Len(controls) <= 1
    /\ \A k \in 1..Len(controls) :
          /\ controls[k].id = "slack-exporter-controls"
          /\ Len(controls[k].inputs) = 1
          /\ Len(controls[k].buttons) = 1
          /\ Len(controls[k].buttons[1].clickListeners) = 1

\* a step that adds a controls element is taken while the header button is
\* inside an actions container and no controls exist; and while the only
\* change not yet delivered to the observer is the insertion, none is added
InsertionStep ==
    /\ Len(controls') > Len(controls) =>
          /\ headerButton = "inActions"
          /\ actionsContainer
          /\ controls = <<>>
    /\ pendingRecords = {"insertion"} => Len(controls') <= Len(controls)

\* C12: whatever the order of the host's changes, the observer's callbacks
\* and the initial call, the document holds at most one element with id
\* 'slack-exporter-controls' (one count field, one export button with one
\* click handler); the change made by the insertion itself causes no second
\* insertion; and controls are inserted only while the header button has an
\* actions-container ancestor.
C12_OneTimeInjection == []AtMostOneControls /\ [][InsertionStep]_vars

\* the controls are in place again after a host re-render removed them, and
\* the observer's callback has run on the insertion's own change
C12_Witness ==
    /\ injPc = "observing"
    /\ rerenders >= 1
    /\ Len(controls) = 1
    /\ pendingRecords = {}

====
